---- MODULE Spec2Model ----
(***************************************************************************)
(* Model of FFmpeg_script.py: main() builds a start queue from the input   *)
(* streams and their offsets (create_queue), releases one recording thread *)
(* per queue entry at its delay (start_queue), and then polls the threads  *)
(* forever, restarting the dead ones, until a KeyboardInterrupt.           *)
(*                                                                         *)
(* Offsets and clock readings are integers (one unit = one clock tick,     *)
(* TicksPerSecond ticks to the second).                                    *)
(* A queue entry is the tuple <<stream_name, delay>>; a thread handle is   *)
(* the position of its start in the log `started`.                         *)
(***************************************************************************)
EXTENDS Integers, Sequences, FiniteSets, TLC

\* ---------------------------------------------------------------- bounds
MaxSources == 2
MaxOffset == 3
MaxElapsed == 3
MaxRestarts == 2
TicksPerSecond == 2

Sources == <<"camA", "camB", "camC", "camD", "camE">>
Offsets == 0..MaxOffset

VARIABLES
    input_stream_names, \* main's first argument
    delays,             \* main's third argument: None, or a list of offsets
    get_filename_bound, \* whether the global name get_filename resolves
    pc,                 \* position of the coordinating thread in main
    exception,          \* the exception that ended main, "none" otherwise
    exit_status,        \* <<>> while the process runs, <<status>> once it ended
    queue,              \* create_queue's and start_queue's list of pairs
    schedule,           \* the list create_queue returned, kept until start_queue returns
    begin,              \* start_queue's begin = time()
    cur,                \* the pair start_queue popped and is waiting for
    threads,            \* start_queue's / main's list of thread handles
    started,            \* log of create_thread calls (stream, restarted index); handle = position
    alive,              \* the handles whose is_alive() is True
    pos,                \* position of main's "for thread in threads"
    now,                \* the wall clock, read by time()
    output_names,       \* the output name the last create_thread derived, kept while
                        \* the clock is in that name's second ({} otherwise)
    events              \* what the last step did (calls made, in order)

vars == <<input_stream_names, delays, get_filename_bound, pc, exception,
          exit_status, queue, schedule, begin, cur, threads, started, alive,
          pos, now, output_names, events>>

\* ------------------------------------------------------------- helpers
None == [supplied |-> FALSE, value |-> <<>>]
Some(list) == [supplied |-> TRUE, value |-> list]

\* Python truthiness of an optional list: None and [] are both falsy.
Truthy(d) == d.supplied /\ Len(d.value) > 0

Range(s) == {s[i] : i \in DOMAIN s}

SeqsUpTo(S, n) == UNION {[1..k -> S] : k \in 0..n}

\* one call or outcome of a step, with the clock reading at which it happened
Ev(type, src, id, ind) ==
    [type |-> type, src |-> src, id |-> id, ind |-> ind, at |-> now, name |-> <<>>]

\* zip(input_stream_names, delays): stops at the shorter of the two.
Zip(names, ds) ==
    LET n == IF Len(names) < Len(ds) THEN Len(names) ELSE Len(ds)
    IN  [i \in 1..n |-> <<names[i], ds[i]>>]

\* list.sort(key=lambda x: x[1]) is stable: an entry goes after every entry
\* whose key is not greater than its own.
InsertUnstable(e, s) ==
    LET k == Cardinality({i \in DOMAIN s : s[i][2] < e[2]})
    IN  SubSeq(s, 1, k) \o <<e>> \o SubSeq(s, k + 1, Len(s))

Insert(e, s) ==
    LET k == Cardinality({i \in DOMAIN s : s[i][2] <= e[2]})
    IN  SubSeq(s, 1, k) \o <<e>> \o SubSeq(s, k + 1, Len(s))

RECURSIVE SortByDelay(_)
SortByDelay(q) ==
    IF q = <<>> THEN <<>>
    ELSE Insert(q[Len(q)], SortByDelay(SubSeq(q, 1, Len(q) - 1)))

\* min(queue, key=lambda x: x[1])[1], of a non-empty queue
MinDelayLast(q) == q[Len(q)][2]

MinDelay(q) == CHOOSE d \in {q[i][2] : i \in DOMAIN q} : \A i \in DOMAIN q : d <= q[i][2]

\* queue[i] = (queue[i][0], queue[i][1] - min_delay)
SubtractNone(q, m) == q

Subtract(q, m) == [i \in DOMAIN q |-> <<q[i][1], q[i][2] - m>>]

\* lines 93-100 of create_queue, on a non-empty queue
SortAndShift(q) == LET s == SortByDelay(q) IN Subtract(s, MinDelay(s))

\* threads.index(thread): the first position holding the handle
IndexFirst(ts, t) == 1

Index(ts, t) == CHOOSE i \in DOMAIN ts : ts[i] = t /\ \A k \in 1..(i - 1) : ts[k] # t

\* the stream main passes to create_thread when it restarts threads[ind]
RestartSource(ind) == input_stream_names[ind]

\* threads[ind] = thread
InstallAppend(ts, ind, t) == Append(ts, t)

InstallInsert(ts, ind, t) == SubSeq(ts, 1, ind - 1) \o <<t>> \o SubSeq(ts, ind, Len(ts))

Install(ts, ind, t) == [ts EXCEPT ![ind] = t]

\* thread.is_alive()
IsAliveAlways(t) == TRUE

IsAliveNever(t) == FALSE

IsAlive(t) == t \in alive

Running == pc \notin {"exited", "error"}

NewHandle == Len(started) + 1

\* restarts made so far, and registry entries that are dead and not replaced
Restarts == Cardinality({i \in DOMAIN started : started[i].ind > 0})
DeadRegistered == Cardinality({i \in DOMAIN threads : threads[i] \notin alive})

\* re.search(r"\d{1,3}\.\d{1,3}\.\d{1,3}\.\d{1,3}", stream_name).group(0): the
\* host address in the stream's URL; the input streams are on different hosts
Ip(stream_name) ==
    CHOOSE k \in DOMAIN Sources : Sources[k] = stream_name

\* now.strftime('%Y-%m-%d_%H-%M-%S'): the clock reading cut to whole seconds
Stamp(t) == t \div TicksPerSecond

\* lines 55-57: f"{ip}_{stamp}.mp4", the module's output name for a stream
MakeFilename(stream_name, t) == <<Ip(stream_name), Stamp(t)>>

\* create_thread, when get_filename resolves (to the module's file-name
\* function): the name is derived in the caller, then a daemon thread is
\* started on record_video
CreateThread(src, ind) ==
    /\ started' = Append(started, [src |-> src, ind |-> ind])
    /\ alive' = alive \cup {NewHandle}
    /\ output_names' = {MakeFilename(src, now)}

\* the create_thread call as an event of a step, with the name it derived
EvLaunch(src, ind) ==
    [Ev("launch", src, NewHandle, ind) EXCEPT !.name = MakeFilename(src, now)]

\* an exception nothing catches ends the process with a non-zero status
Uncaught(exc) ==
    /\ pc' = "error"
    /\ exception' = exc
    /\ exit_status' = <<1>>

\* ------------------------------------------------------------ initial state
Init ==
    /\ \E n \in 0..MaxSources : input_stream_names = SubSeq(Sources, 1, n)
    /\ delays \in {None} \cup {Some(s) : s \in SeqsUpTo(Offsets, MaxSources)}
    /\ get_filename_bound \in BOOLEAN
    /\ pc = "main"
    /\ exception = "none"
    /\ exit_status = <<>>
    /\ queue = <<>>
    /\ schedule = <<>>
    /\ begin = 0
    /\ cur = <<>>
    /\ threads = <<>>
    /\ started = <<>>
    /\ alive = {}
    /\ pos = 0
    /\ now = 0
    /\ output_names = {}
    /\ events = <<>>

\* ------------------------------------------------------------------ main
\* lines 129-131: the count check, made only when delays is truthy
MainRaise ==
    /\ pc = "main"
    /\ Truthy(delays)
    /\ Len(input_stream_names) # Len(delays.value)
    /\ Uncaught("ValueError_delays")
    /\ events' = <<Ev("raise", "ValueError_delays", 0, 0)>>
    /\ UNCHANGED <<output_names, input_stream_names, delays, get_filename_bound, queue,
                   schedule, begin, cur, threads, started, alive, pos, now>>

\* lines 132, 84-87: create_queue pairs the streams with the supplied delays
MainSupplied ==
    /\ pc = "main"
    /\ Truthy(delays)
    /\ Len(input_stream_names) = Len(delays.value)
    /\ queue' = Zip(input_stream_names, delays.value)
    /\ pc' = "sort"
    /\ events' = <<Ev("zip", "", 0, 0)>>
    /\ UNCHANGED <<output_names, input_stream_names, delays, get_filename_bound, exception,
                   exit_status, schedule, begin, cur, threads, started, alive,
                   pos, now>>

\* lines 132, 84-85, 88-89: delays is falsy, create_queue enters the probe loop
MainProbe ==
    /\ pc = "main"
    /\ ~Truthy(delays)
    /\ queue' = <<>>
    /\ pc' = IF Len(input_stream_names) = 0 THEN "sort" ELSE "probe"
    /\ events' = <<Ev("enter_probe", "", 0, 0)>>
    /\ UNCHANGED <<output_names, input_stream_names, delays, get_filename_bound, exception,
                   exit_status, schedule, begin, cur, threads, started, alive,
                   pos, now>>

\* lines 89-92, 33-45: one get_stream_delay call, in input order; the engine
\* returns a start_time or the call raises
ProbeOk ==
    /\ pc = "probe"
    /\ LET k == Len(queue) + 1
           name == input_stream_names[k]
       IN  /\ \E d \in Offsets : queue' = Append(queue, <<name, d>>)
           /\ pc' = IF k = Len(input_stream_names) THEN "sort" ELSE "probe"
           /\ events' = <<Ev("probe", name, 0, k)>>
    /\ UNCHANGED <<output_names, input_stream_names, delays, get_filename_bound, exception,
                   exit_status, schedule, begin, cur, threads, started, alive,
                   pos, now>>

ProbeRaiseSwallowed ==
    /\ pc = "probe"
    /\ LET k == Len(queue) + 1
           name == input_stream_names[k]
       IN  events' = <<Ev("probe", name, 0, k), Ev("raise", "ProbeError", 0, k)>>
    /\ pc' = "sort"
    /\ exception' = "ProbeError"
    /\ UNCHANGED <<output_names, input_stream_names, delays, get_filename_bound,
                   exit_status, queue, schedule, begin, cur, threads, started,
                   alive, pos, now>>

ProbeRaise ==
    /\ pc = "probe"
    /\ LET k == Len(queue) + 1
           name == input_stream_names[k]
       IN  events' = <<Ev("probe", name, 0, k), Ev("raise", "ProbeError", 0, k)>>
    /\ Uncaught("ProbeError")
    /\ UNCHANGED <<output_names, input_stream_names, delays, get_filename_bound, queue,
                   schedule, begin, cur, threads, started, alive, pos, now>>

\* lines 93-100: sort, shift by the minimum, return; min() of an empty list
\* raises ValueError
Sort ==
    /\ pc = "sort"
    /\ queue # <<>>
    /\ queue' = SortAndShift(queue)
    /\ schedule' = queue'
    /\ pc' = "start_queue"
    /\ events' = <<Ev("sort", "", 0, 0)>>
    /\ UNCHANGED <<output_names, input_stream_names, delays, get_filename_bound, exception,
                   exit_status, begin, cur, threads, started, alive, pos, now>>

SortRaise ==
    /\ pc = "sort"
    /\ queue = <<>>
    /\ Uncaught("ValueError_min")
    /\ events' = <<Ev("raise", "ValueError_min", 0, 0)>>
    /\ UNCHANGED <<output_names, input_stream_names, delays, get_filename_bound, queue,
                   schedule, begin, cur, threads, started, alive, pos, now>>

\* ----------------------------------------------------------- start_queue
\* lines 111-112
StartQueue ==
    /\ pc = "start_queue"
    /\ threads' = <<>>
    /\ begin' = now
    /\ pc' = "pop"
    /\ events' = <<Ev("begin", "", 0, 0)>>
    /\ UNCHANGED <<output_names, input_stream_names, delays, get_filename_bound, exception,
                   exit_status, queue, schedule, cur, started, alive, pos, now>>

\* lines 113-114
Pop ==
    /\ pc = "pop"
    /\ queue # <<>>
    /\ cur' = Head(queue)
    /\ queue' = Tail(queue)
    /\ pc' = "wait"
    /\ events' = <<Ev("pop", Head(queue)[1], 0, 0)>>
    /\ UNCHANGED <<output_names, input_stream_names, delays, get_filename_bound, exception,
                   exit_status, schedule, begin, threads, started, alive, pos,
                   now>>

\* the delay start_queue waits for before it starts the popped stream
DelayNone(entry) == 0

Delay(entry) == entry[2]

\* lines 115-118: the busy wait ends once time() - begin >= delay; then the
\* thread is created and appended
Release ==
    /\ pc = "wait"
    /\ ~(now - begin < Delay(cur))
    /\ get_filename_bound
    /\ CreateThread(cur[1], 0)
    /\ threads' = Append(threads, NewHandle)
    /\ pc' = "pop"
    /\ events' = <<EvLaunch(cur[1], 0)>>
    /\ UNCHANGED <<input_stream_names, delays, get_filename_bound, exception,
                   exit_status, queue, schedule, begin, cur, pos, now>>

\* line 69: get_filename is not defined in the module, so evaluating the
\* arguments of Thread(...) raises NameError in the caller
ReleaseRaise ==
    /\ pc = "wait"
    /\ ~(now - begin < Delay(cur))
    /\ ~get_filename_bound
    /\ Uncaught("NameError_get_filename")
    /\ events' = <<Ev("raise", "NameError_get_filename", 0, 0)>>
    /\ UNCHANGED <<output_names, input_stream_names, delays, get_filename_bound, queue,
                   schedule, begin, cur, threads, started, alive, pos, now>>

\* line 119, 134-137: the queue is empty, start_queue returns and main enters
\* its loop; start_queue's locals (begin, the popped pair) are gone
Return ==
    /\ pc = "pop"
    /\ queue = <<>>
    /\ pc' = "supervise"
    /\ pos' = 1
    /\ begin' = 0
    /\ cur' = <<>>
    /\ schedule' = <<>>
    /\ events' = <<Ev("return", "", 0, 0)>>
    /\ UNCHANGED <<output_names, input_stream_names, delays, get_filename_bound, exception,
                   exit_status, queue, threads, started, alive, now>>

\* ------------------------------------------------------- main's loop
NextPos == IF pos = Len(threads) THEN 1 ELSE pos + 1

\* lines 137-138: the thread at the loop position is alive
PollAlive ==
    /\ pc = "supervise"
    /\ IsAlive(threads[pos])
    /\ pos' = NextPos
    /\ events' = <<Ev("is_alive", "", threads[pos], pos)>>
    /\ UNCHANGED <<output_names, input_stream_names, delays, get_filename_bound, pc,
                   exception, exit_status, queue, schedule, begin, cur,
                   threads, started, alive, now>>

\* lines 138-143: it is dead; a thread is created and put in its place
\* (get_filename resolved for every start of start_queue, so it resolves here)
PollDead ==
    /\ pc = "supervise"
    /\ ~IsAlive(threads[pos])
    /\ get_filename_bound
    /\ LET ind == Index(threads, threads[pos])
       IN  /\ CreateThread(RestartSource(ind), ind)
           /\ threads' = Install(threads, ind, NewHandle)
           /\ events' = <<Ev("is_alive", "", threads[pos], pos),
                          EvLaunch(RestartSource(ind), ind),
                          Ev("install", "", NewHandle, ind)>>
    /\ pos' = NextPos
    /\ UNCHANGED <<input_stream_names, delays, get_filename_bound, pc,
                   exception, exit_status, queue, schedule, begin, cur, now>>

\* lines 144-146: KeyboardInterrupt inside the try block is caught, logged,
\* and main ends with sys.exit(0); nothing is done to the threads
InterruptNotCaught ==
    /\ pc = "supervise"
    /\ Uncaught("KeyboardInterrupt")
    /\ events' = <<Ev("interrupt", "", 0, 0), Ev("raise", "KeyboardInterrupt", 0, 0)>>
    /\ UNCHANGED <<output_names, input_stream_names, delays, get_filename_bound, queue,
                   schedule, begin, cur, threads, started, alive, pos, now>>

Interrupt ==
    /\ pc = "supervise"
    /\ pc' = "exited"
    /\ exception' = "KeyboardInterrupt"
    /\ exit_status' = <<0>>
    /\ events' = <<Ev("interrupt", "", 0, 0), Ev("exit", "", 0, 0)>>
    /\ UNCHANGED <<output_names, input_stream_names, delays, get_filename_bound, queue,
                   schedule, begin, cur, threads, started, alive, pos, now>>

\* lines 129-134: KeyboardInterrupt outside the try block is not caught
InterruptEarly ==
    /\ pc \in {"main", "probe", "sort", "start_queue", "pop", "wait"}
    /\ Uncaught("KeyboardInterrupt")
    /\ events' = <<Ev("interrupt", "", 0, 0), Ev("raise", "KeyboardInterrupt", 0, 0)>>
    /\ UNCHANGED <<output_names, input_stream_names, delays, get_filename_bound, queue,
                   schedule, begin, cur, threads, started, alive, pos, now>>

\* ----------------------------------------------------------- environment
\* the wall clock advances; its origin is the instant of start_queue's
\* begin = time(), the first time the program reads it
Tick ==
    /\ pc \in {"pop", "wait", "supervise"}
    /\ now < MaxElapsed
    /\ now' = now + 1
    /\ output_names' = IF Stamp(now + 1) = Stamp(now) THEN output_names ELSE {}
    /\ events' = <<>>
    /\ UNCHANGED <<input_stream_names, delays, get_filename_bound, pc,
                   exception, exit_status, queue, schedule, begin, cur,
                   threads, started, alive, pos>>

\* lines 11-30: record_video returns or raises in its thread (ffmpeg exits);
\* nothing of it reaches the thread that runs main
DieFatal ==
    /\ Running
    /\ Restarts + DeadRegistered < MaxRestarts
    /\ \E t \in alive : alive' = alive \ {t}
    /\ Uncaught("CaptureFailure")
    /\ events' = <<Ev("raise", "CaptureFailure", 0, 0)>>
    /\ UNCHANGED <<output_names, input_stream_names, delays, get_filename_bound,
                   queue, schedule, begin, cur, threads, started, pos, now>>

Die ==
    /\ Running
    /\ Restarts + DeadRegistered < MaxRestarts
    /\ \E t \in alive : alive' = alive \ {t}
    /\ events' = <<>>
    /\ UNCHANGED <<output_names, input_stream_names, delays, get_filename_bound, pc,
                   exception, exit_status, queue, schedule, begin, cur,
                   threads, started, pos, now>>

Next ==
    \/ MainRaise
    \/ MainSupplied
    \/ MainProbe
    \/ ProbeOk
    \/ ProbeRaise
    \/ Sort
    \/ SortRaise
    \/ StartQueue
    \/ Pop
    \/ Release
    \/ ReleaseRaise
    \/ Return
    \/ PollAlive
    \/ PollDead
    \/ Interrupt
    \/ InterruptEarly
    \/ Tick
    \/ Die

Spec == Init /\ [][Next]_vars

\* main's "while True" loop keeps running: the coordinating thread is never
\* starved, so a poll that can be made is eventually made
FairSpec == Spec /\ WF_vars(PollAlive \/ PollDead)

\* ===================================================================
\* Properties

\* position of a stream in a list of pairs (the streams are distinct)
PosOf(q, name) == CHOOSE k \in DOMAIN q : q[k][1] = name

\* the offset create_queue was given for input stream i: the supplied one,
\* or the one probed for it (raw is the queue before the sort)
OffsetOf(raw, i) == IF Truthy(delays) THEN delays.value[i] ELSE raw[i][2]

MinOf(S) == CHOOSE m \in S : \A x \in S : m <= x

InitialStarts == {k \in DOMAIN started : started[k].ind = 0}

C3_ScheduleBuilt ==
    [][(pc = "sort" /\ pc' = "start_queue") =>
         LET raw == queue
             out == schedule'
             offs == {OffsetOf(raw, i) : i \in DOMAIN input_stream_names}
         IN  /\ Len(out) = Len(input_stream_names)
             /\ \A i \in DOMAIN input_stream_names :
                  /\ Cardinality({k \in DOMAIN out : out[k][1] = input_stream_names[i]}) = 1
                  /\ \A k \in DOMAIN out :
                       out[k][1] = input_stream_names[i]
                          => out[k][2] = OffsetOf(raw, i) - MinOf(offs)]_vars

C3_Witness ==
    /\ pc = "start_queue"
    /\ input_stream_names = <<"camA", "camB">>
    /\ delays = Some(<<3, 1>>)
    /\ schedule = << <<"camB", 0>>, <<"camA", 2>> >>

\* C4: the delays of a built queue are all >= 0, the smallest is exactly 0,
\* and they do not decrease with position.
C4_DelaysNormalised ==
    schedule # <<>> =>
        /\ \A k \in DOMAIN schedule : schedule[k][2] >= 0
        /\ \E k \in DOMAIN schedule : schedule[k][2] = 0
        /\ \A k \in 1..(Len(schedule) - 1) : schedule[k][2] <= schedule[k + 1][2]

C4_Witness ==
    /\ pc = "start_queue"
    /\ delays = Some(<<3, 1>>)
    /\ schedule[1][2] = 0
    /\ schedule[2][2] = 2

\* C5: two streams with the same offset keep, in the built queue, the
\* relative order they have in the input.
C5_Stable ==
    [][(pc = "sort" /\ pc' = "start_queue") =>
         \A i, j \in DOMAIN queue :
            (i < j /\ queue[i][2] = queue[j][2])
               => PosOf(schedule', queue[i][1]) < PosOf(schedule', queue[j][1])]_vars

C5_Witness ==
    /\ pc = "start_queue"
    /\ delays = Some(<<2, 2>>)
    /\ schedule = << <<"camA", 0>>, <<"camB", 0>> >>

\* the step just taken was a poll of main's loop / a KeyboardInterrupt
Polled == Len(events) > 0 /\ events[1].type = "is_alive"
Interrupted == Len(events) > 0 /\ events[1].type = "interrupt"

\* C6: when the thread at the loop position is dead, the poll queries the
\* handle the registry holds, makes exactly one create_thread call, for that
\* index, and puts the new handle at that index in place of the old one, which
\* leaves the registry; and is_alive is only ever asked of a handle the
\* registry holds, so never of a replaced one.
C6_DeadReplacedOnce ==
    /\ [][(pc = "supervise" /\ Polled' /\ threads[pos] \notin alive) =>
            LET old == threads[pos]
            IN  /\ events'[1].id = old
                /\ Len(started') = Len(started) + 1
                /\ started'[Len(started')].ind = pos
                /\ threads'[pos] = Len(started')
                /\ threads'[pos] # old
                /\ old \notin Range(threads')
                /\ Len(threads') = Len(threads)]_vars
    /\ [][\A i \in DOMAIN events' :
            (events # events' /\ events'[i].type = "is_alive")
               => events'[i].id \in Range(threads)]_vars

C6_Witness ==
    /\ pc = "supervise"
    /\ Len(events) = 3
    /\ events[1].type = "is_alive"
    /\ events[3].type = "install"
    /\ events[1].id \notin alive
    /\ events[1].id \notin Range(threads)
    /\ threads[events[3].ind] = events[3].id
    /\ Len(threads) = 2

\* C7: while main is in its loop and is not interrupted, every registry index
\* whose thread is dead eventually holds a live thread that was started as the
\* restart of that index (a thread never comes back to life, so the dead one
\* has been replaced).
C7_DeadEventuallyReplaced ==
    \A i \in 1..MaxSources :
        (pc = "supervise" /\ i \in DOMAIN threads /\ threads[i] \notin alive)
            ~> (\/ pc = "exited"
                \/ /\ i \in DOMAIN threads
                   /\ threads[i] \in alive
                   /\ started[threads[i]].ind = i
                   /\ Len(threads) = Len(input_stream_names))

C7_Witness ==
    /\ pc = "supervise"
    /\ Restarts = 2
    /\ Len(threads) = 2
    /\ \A i \in DOMAIN threads : started[threads[i]].ind = i
    /\ \A i \in DOMAIN threads : threads[i] \in alive

\* C8: a step taken while every registered thread is alive makes no
\* create_thread call and leaves the registry as it is; so N polls over
\* threads that stay alive make no restart, for every N.
C8_HealthyNoRestart ==
    [][(pc = "supervise" /\ \A i \in DOMAIN threads : threads[i] \in alive)
          => (threads' = threads /\ started' = started)]_vars

C8_Witness ==
    /\ pc = "supervise"
    /\ Polled
    /\ Len(events) = 1
    /\ events[1].ind = 2
    /\ pos = 1
    /\ threads = <<1, 2>>
    /\ started = <<[src |-> "camA", ind |-> 0], [src |-> "camB", ind |-> 0]>>
    /\ alive = {1, 2}

\* C9: a KeyboardInterrupt that arrives while main is in its loop ends the
\* process with exit status 0, changes neither the registry nor the liveness
\* of any thread and starts none; after it no step is taken at all.
C9_InterruptExitsCleanly ==
    /\ [][(pc = "supervise" /\ Interrupted') =>
            /\ pc' = "exited"
            /\ exit_status' = <<0>>
            /\ threads' = threads
            /\ started' = started
            /\ alive' = alive]_vars
    /\ [][pc = "exited" => UNCHANGED vars]_vars

C9_Witness ==
    /\ pc = "exited"
    /\ exit_status = <<0>>
    /\ Interrupted
    /\ Len(threads) = 2
    /\ \E t \in Range(threads) : t \in alive
    /\ \E t \in Range(threads) : t \notin alive

\* C10: when delays are supplied and their count differs from the number of
\* input streams, main ends with the ValueError of line 131 before any probe
\* and before any thread is created.
C10_MismatchRejected ==
    (delays.supplied /\ Len(delays.value) # Len(input_stream_names)) =>
        /\ \A i \in DOMAIN events : events[i].type # "probe"
        /\ started = <<>>
        /\ pc \notin {"supervise", "exited"}
        /\ pc = "error" => exception \in {"ValueError_delays", "KeyboardInterrupt"}

\* the step just taken made a create_thread call that returned
Launched == \E i \in DOMAIN events : events[i].type = "launch"

\* C11: when a get_stream_delay call raises, main ends with that error: no
\* queue is returned by create_queue, not even a partial one, and no thread
\* is ever created.
C11_ProbeFailureAborts ==
    exception = "ProbeError" =>
        /\ pc = "error"
        /\ exit_status = <<1>>
        /\ schedule = <<>>
        /\ started = <<>>
        /\ threads = <<>>
        /\ alive = {}

C11_Witness ==
    /\ exception = "ProbeError"
    /\ Len(input_stream_names) = 2
    /\ Len(queue) = 1
    /\ events[1].type = "probe"
    /\ events[1].src = "camB"

\* C12: once main is in its loop, no death of a thread and no restart takes
\* it out of the loop: every step leaves it in the loop, except the
\* KeyboardInterrupt, which ends the process with status 0.
C12_DeathsNeverFatal ==
    [][pc = "supervise" =>
          \/ pc' = "supervise" /\ exception' = "none" /\ exit_status' = <<>>
          \/ pc' = "exited" /\ Interrupted' /\ exit_status' = <<0>>]_vars

C12_Witness ==
    /\ pc = "supervise"
    /\ exception = "none"
    /\ exit_status = <<>>
    /\ Restarts = 2
    /\ DeadRegistered = 0
    /\ Launched

\* C13: a create_thread call returns a thread handle whatever the stream: no
\* error of the output-name derivation is raised in the caller (start_queue
\* or main's loop).
C13_LaunchNeverRaises ==
    /\ exception # "NameError_get_filename"
    /\ \A i \in DOMAIN events :
          events[i].type = "raise" => events[i].src # "NameError_get_filename"

\* C14: a KeyboardInterrupt ends the process with status 0 in whatever phase
\* it arrives: create_queue, start_queue or main's loop.
C14_InterruptAlwaysClean ==
    Interrupted => (pc = "exited" /\ exit_status = <<0>>)

C16_RestartTouchesOnlyDead ==
    [][(pc = "supervise" /\ pc' = "supervise") =>
          /\ \A j \in DOMAIN threads :
                (j # pos \/ threads[j] \in alive) =>
                    (j \in DOMAIN threads' /\ threads'[j] = threads[j])
          /\ Len(started') > Len(started) =>
                /\ threads[pos] \notin alive
                /\ Len(started') = Len(started) + 1
                /\ started'[Len(started')].ind = pos
          /\ \A j \in DOMAIN threads :
                (threads[j] \in alive /\ j \in DOMAIN threads'
                 /\ threads'[j] = threads[j] /\ Polled')
                    => threads[j] \in alive']_vars

C16_Witness ==
    /\ pc = "supervise"
    /\ Len(events) = 3
    /\ events[3].type = "install"
    /\ events[3].ind = 2
    /\ threads[2] = events[3].id
    /\ threads[1] = 1
    /\ 1 \in alive

\* C17: once start_queue has returned, the registry has as many entries as
\* there are input streams, each a different thread that was started, and
\* every step of main's loop keeps it so.
C17_RegistrySize ==
    pc \in {"supervise", "exited"} =>
        /\ Len(threads) = Len(input_stream_names)
        /\ \A i \in DOMAIN threads : threads[i] \in DOMAIN started
        /\ \A i, j \in DOMAIN threads : i # j => threads[i] # threads[j]

C17_Witness ==
    /\ pc = "supervise"
    /\ Len(input_stream_names) = 2
    /\ Len(threads) = 2
    /\ Restarts = 1
    /\ DeadRegistered = 1
    /\ Len(started) = 3

\* C18: get_stream_delay is called only when no delays are supplied.
C18_ProbeOnlyWhenOmitted ==
    delays.supplied => \A i \in DOMAIN events : events[i].type # "probe"

====
